---- MODULE Spec2Model ----
(***************************************************************************)
(* The Limitless TCG MCP servers: the authenticated request client         *)
(* (limitlessRequest) and the four tool handlers that call it.             *)
(*                                                                         *)
(* Three programs are modelled:                                            *)
(*   "fallback"  src/unnamed/part_000     query-parameter authentication   *)
(*                                        with one retry in header mode    *)
(*   "header"    src/server.ts:1-280      header authentication, no retry  *)
(*   "legacy"    src/server.ts:281-563    the fallback client, started     *)
(*                                        with a built-in default key      *)
(* and, in a specification of their own, the two resource servers, which   *)
(* share the fallback client:                                              *)
(*   "resources"           src/unnamed/part_001                            *)
(*   "filtered-resources"  src/unnamed/part_002   built-in default key     *)
(*                                                                         *)
(* JavaScript runs a handler without interruption between two awaits, so   *)
(* an action is the code from one await to the next: the call up to        *)
(* `await fetch(...)`, the continuation up to `await response.json()`,     *)
(* and the continuation up to the handler's return.                        *)
(***************************************************************************)
EXTENDS Integers, Sequences, FiniteSets, TLC

VARIABLES
    program,      \* which server file is running
    env,          \* process.env.LIMITLESS_API_KEY
    argv,         \* process.argv, each argument a sequence of tokens
    process,      \* starting, serving or exited
    validApiKey,  \* the credential, fixed at startup
    inv           \* per invocation slot: the handler's and the client's state

vars == <<program, env, argv, process, validApiKey, inv>>

\* what only startup writes
config == <<program, env, argv, process, validApiKey>>

----------------------------------------------------------------------------
(* Bounds of the model *)

MaxSlots == 2        \* invocation slots of the host process
MaxEndpointLen == 3  \* tokens of an endpoint handed to a bare call of the client
MaxArgs == 2         \* command-line arguments after the script's name

Slots == 1..MaxSlots

----------------------------------------------------------------------------
(* JavaScript values *)

Undefined == [t |-> "undefined"]
Null == [t |-> "null"]
Str(s) == [t |-> "string", v |-> s]
Num(n) == [t |-> "number", v |-> n]
Arr(items) == [t |-> "array", items |-> items]
Obj(fields) == [t |-> "object", fields |-> fields]   \* fields: sequence of <<key, value>>

\* `if (x)`: undefined, null, "" and 0 are falsy
Truthy(v) ==
    CASE v.t = "undefined" -> FALSE
      [] v.t = "null" -> FALSE
      [] v.t = "string" -> v.v # ""
      [] v.t = "number" -> v.v # 0
      [] OTHER -> TRUE

\* String(value) and `${value}` of a scalar
String(v) ==
    CASE v.t = "undefined" -> "undefined"
      [] v.t = "null" -> "null"
      [] v.t = "string" -> v.v
      [] v.t = "number" -> ToString(v.v)
      [] OTHER -> "[object Object]"

\* concatenation of a sequence of strings
RECURSIVE Join(_)
Join(ss) == IF ss = <<>> THEN "" ELSE Head(ss) \o Join(Tail(ss))

\* obj[key] of a parsed JSON value; undefined when absent or not an object
RECURSIVE Lookup(_, _)
Lookup(fields, key) ==
    IF fields = <<>> THEN Undefined
    ELSE IF Head(fields)[1] = key THEN Head(fields)[2]
    ELSE Lookup(Tail(fields), key)

Spaces(n) == Join([k \in 1..n |-> " "])

\* JSON.stringify(value, null, indent)
RECURSIVE Stringify(_, _, _)
StringifyItems(items, indent, level, isObject) ==
    LET pad == IF indent = 0 THEN "" ELSE "\n" \o Spaces(indent * (level + 1))
        colon == IF indent = 0 THEN ":" ELSE ": "
        One(k) ==
            (IF k = 1 THEN "" ELSE ",") \o pad \o
            (IF isObject
                THEN "\"" \o items[k][1] \o "\"" \o colon \o Stringify(items[k][2], indent, level + 1)
                ELSE Stringify(items[k], indent, level + 1))
    IN  Join([k \in 1..Len(items) |-> One(k)]) \o
        (IF indent = 0 THEN "" ELSE "\n" \o Spaces(indent * level))
Stringify(v, indent, level) ==
    CASE v.t = "null" -> "null"
      [] v.t = "number" -> ToString(v.v)
      [] v.t = "string" -> "\"" \o v.v \o "\""
      [] v.t = "array" ->
            IF v.items = <<>> THEN "[]"
            ELSE "[" \o StringifyItems(v.items, indent, level, FALSE) \o "]"
      [] v.t = "object" ->
            IF v.fields = <<>> THEN "{}"
            ELSE "{" \o StringifyItems(v.fields, indent, level, TRUE) \o "}"

----------------------------------------------------------------------------
(* The upstream API as the client sees it *)

\* status lines the upstream may answer with
StatusLines ==
    { [status |-> 200, statusText |-> "OK"],
      [status |-> 401, statusText |-> "Unauthorized"],
      [status |-> 404, statusText |-> "Not Found"] }

\* response.ok
ok(response) == response.status >= 200 /\ response.status <= 299

\* response bodies the upstream may send, and what response.json() makes of them
ParseTable ==
    { <<"null", Null>>,
      <<"[]", Arr(<<>>)>>,
      <<"{\"name\":\"Cup\"}", Obj(<<<<"name", Str("Cup")>>>>)>>,
      <<"{\"id\":7}", Obj(<<<<"id", Num(7)>>>>)>> }
ValidBodies == { e[1] : e \in ParseTable }
InvalidBodies == { "<html>" }
JSONparse(text) == (CHOOSE e \in ParseTable : e[1] = text)[2]

----------------------------------------------------------------------------
(* limitlessRequest: building the outbound request *)

\* Paths are sequences of tokens: "/" is the separator, any other token is a
\* run of characters without a separator.
API_BASE_URL == [origin |-> "https://play.limitlesstcg.com", pathname |-> <<"/", "api">>]

\* endpoint.startsWith('/') ? endpoint.substring(1) : endpoint
cleanEndpoint(endpoint) ==
    IF Len(endpoint) > 0 /\ Head(endpoint) = "/" THEN Tail(endpoint) ELSE endpoint

\* new URL(`${API_BASE_URL}/${path}`). The URL is kept as the URL object holds
\* it, a path and a list of name/value pairs; the percent-encoding of
\* url.toString() and its decoding by the upstream are not modelled.
NewURL(path) ==
    [origin |-> API_BASE_URL.origin,
     pathname |-> API_BASE_URL.pathname \o <<"/">> \o path,
     searchParams |-> <<>>]

\* mutant: `if (value)` in place of `if (value !== undefined)`
RECURSIVE appendTruthyParams(_, _)
appendTruthyParams(searchParams, params) ==
    IF params = <<>> THEN searchParams
    ELSE appendTruthyParams(IF Truthy(Head(params)[2])
                                THEN Append(searchParams,
                                            <<Head(params)[1], String(Head(params)[2])>>)
                                ELSE searchParams,
                            Tail(params))

\* for (const [key, value] of Object.entries(params))
\*   if (value !== undefined) url.searchParams.append(key, String(value))
RECURSIVE appendParams(_, _)
appendParams(searchParams, params) ==
    IF params = <<>> THEN searchParams
    ELSE LET key == Head(params)[1]
             value == Head(params)[2]
         IN  appendParams(IF value # Undefined
                              THEN Append(searchParams, <<key, String(value)>>)
                              ELSE searchParams,
                          Tail(params))

\* mutant: the header is set and the key is appended to the URL as well
authenticateBoth(url, useHeaderAuth, key) ==
    [url |-> [url EXCEPT !.searchParams = Append(@, <<"key", key>>)],
     headers |-> IF useHeaderAuth THEN {<<"X-Access-Key", key>>} ELSE {}]

\* the credential goes into the header or into the URL
authenticate(url, useHeaderAuth, key) ==
    IF useHeaderAuth
        THEN [url |-> url, headers |-> {<<"X-Access-Key", key>>}]
        ELSE [url |-> [url EXCEPT !.searchParams = Append(@, <<"key", key>>)],
              headers |-> {}]

\* part_000: what limitlessRequest(endpoint, params, useHeaderAuth) hands to fetch
fallbackFetchArgs(endpoint, params, useHeaderAuth, key) ==
    LET url == NewURL(cleanEndpoint(endpoint))
    IN  authenticate([url EXCEPT !.searchParams = appendParams(@, params)],
                     useHeaderAuth, key)

\* mutant: the header program sends the key in the URL
headerFetchArgsInQuery(endpoint, params, key) ==
    LET url == NewURL(endpoint)
    IN  [url |-> [url EXCEPT !.searchParams = Append(appendParams(@, params), <<"key", key>>)],
         headers |-> {}]

\* server.ts: what limitlessRequest(endpoint, params) hands to fetch
headerFetchArgs(endpoint, params, key) ==
    LET url == NewURL(endpoint)
    IN  [url |-> [url EXCEPT !.searchParams = appendParams(@, params)],
         headers |-> {<<"X-Access-Key", key>>}]

fetchArgs(prog, endpoint, params, useHeaderAuth, key) ==
    IF prog = "header"
        THEN headerFetchArgs(endpoint, params, key)
        ELSE fallbackFetchArgs(endpoint, params, useHeaderAuth, key)

\* mutants: the catch block never retries; retries whatever the mode
retryNever(useHeaderAuth) == FALSE
retryAlways(useHeaderAuth) == TRUE

\* catch (error): `if (!useHeaderAuth) return limitlessRequest(endpoint, params, true)`
retryWithHeaderAuth(useHeaderAuth) == ~useHeaderAuth

\* the header program's catch logs and rethrows
shouldRetry(prog, useHeaderAuth) ==
    IF prog = "header" THEN FALSE ELSE retryWithHeaderAuth(useHeaderAuth)

----------------------------------------------------------------------------
(* Errors *)

\* mutant: the error says nothing of the response
HttpErrorBare(response) == [name |-> "Error", message |-> "API request failed"]

\* new Error(`API request failed: ${response.status} ${response.statusText}`)
HttpError(response) ==
    [name |-> "Error",
     message |-> "API request failed: " \o ToString(response.status)
                 \o " " \o response.statusText]
\* fetch rejects
NetworkError == [name |-> "FetchError", message |-> "request failed"]
\* response.json() rejects
JsonError == [name |-> "SyntaxError", message |-> "Unexpected token < in JSON at position 0"]
\* tournament.name of null
NullError == [name |-> "TypeError", message |-> "Cannot read properties of null (reading 'name')"]

\* `${error}`
ErrorToString(error) == error.name \o ": " \o error.message

----------------------------------------------------------------------------
(* Startup: the credential *)

\* Arguments are sequences of tokens: "=" is a token of its own, any other
\* token is a run of characters without "=".

\* arg.startsWith("api-key=")
startsWithApiKey(arg) == Len(arg) >= 2 /\ arg[1] = "api-key" /\ arg[2] = "="

\* arg.split("="): the strings between the "=" tokens
RECURSIVE split(_)
split(arg) ==
    LET cut == { k \in 1..Len(arg) : arg[k] = "=" }
    IN  IF cut = {} THEN <<Join(arg)>>
        ELSE LET first == CHOOSE k \in cut : \A j \in cut : k <= j
             IN  <<Join(SubSeq(arg, 1, first - 1))>>
                 \o split(SubSeq(arg, first + 1, Len(arg)))

\* process.argv.find(arg => arg.startsWith("api-key="))
findApiKeyArg(args) ==
    LET hits == { k \in 1..Len(args) : startsWithApiKey(args[k]) }
    IN  IF hits = {} THEN Undefined
        ELSE Arr(args[CHOOSE k \in hits : \A j \in hits : k <= j])

\* mutant: the argument is looked at before the environment variable
getApiKeyArgumentFirst(environment, args) ==
    IF findApiKeyArg(args) # Undefined
        THEN Str(split(findApiKeyArg(args).items)[2])
    ELSE IF Truthy(environment) THEN environment
    ELSE Null

\* getApiKey(): the environment variable, else the argument's split("=")[1], else null
getApiKey(environment, args) ==
    IF Truthy(environment) THEN environment
    ELSE IF findApiKeyArg(args) # Undefined
        THEN Str(split(findApiKeyArg(args).items)[2])
    ELSE Null

\* const apiKey = getApiKey() || "dddc5b23b5bae0a87ca800c20d336022"
DefaultKey == "dddc5b23b5bae0a87ca800c20d336022"

\* the module's apiKey: the legacy program falls back to the built-in key
apiKeyOf(prog, environment, args) ==
    IF prog \in {"legacy", "filtered-resources"} /\ ~Truthy(getApiKey(environment, args))
        THEN Str(DefaultKey)
        ELSE getApiKey(environment, args)

----------------------------------------------------------------------------
(* The tool handlers *)

\* what the schema hands to the get_tournaments handler: the header program
\* declares `game` as optional().default('VGC'), the fallback program as nullish()
tournamentsParamsSchema(prog, raw) ==
    IF prog = "header" /\ raw.game = Undefined
        THEN [raw EXCEPT !.game = Str("VGC")]
        ELSE raw

\* optional().default() does not admit null; nullish() does
schemaAccepts(prog, raw) == prog = "header" => raw.game # Null

\* mutant: the filters are tested with `!== undefined`
queryParamsDefined(args) ==
    LET set(q, key, value) == IF value # Undefined THEN Append(q, <<key, value>>) ELSE q
    IN  set(set(set(set(set(<<>>, "game", args.game), "format", args.format),
                    "organizerId", args.organizerId), "limit", args.limit),
            "page", args.page)

\* if (game) queryParams.game = game; ... if (page) queryParams.page = page;
queryParamsOf(args) ==
    LET set(q, key, value) == IF Truthy(value) THEN Append(q, <<key, value>>) ELSE q
    IN  set(set(set(set(set(<<>>, "game", args.game), "format", args.format),
                    "organizerId", args.organizerId), "limit", args.limit),
            "page", args.page)

\* mutant: the title names every filter that is not undefined
titleOfDefined(args) ==
    "Limitless Tournaments"
    \o (IF args.game # Undefined THEN " - " \o String(args.game) ELSE "")
    \o (IF args.format # Undefined THEN " (" \o String(args.format) \o " format)" ELSE "")
    \o (IF args.organizerId # Undefined
            THEN " by organizer " \o String(args.organizerId) ELSE "")
    \o (IF args.limit # Undefined THEN " (limited to " \o String(args.limit) \o ")" ELSE "")
    \o (IF args.page # Undefined THEN " - Page " \o String(args.page) ELSE "")

\* let title = "Limitless Tournaments"; if (game) title += ` - ${game}`; ...
titleOf(args) ==
    "Limitless Tournaments"
    \o (IF Truthy(args.game) THEN " - " \o String(args.game) ELSE "")
    \o (IF Truthy(args.format) THEN " (" \o String(args.format) \o " format)" ELSE "")
    \o (IF Truthy(args.organizerId) THEN " by organizer " \o String(args.organizerId) ELSE "")
    \o (IF Truthy(args.limit) THEN " (limited to " \o String(args.limit) \o ")" ELSE "")
    \o (IF Truthy(args.page) THEN " - Page " \o String(args.page) ELSE "")

\* mutant: the details handler asks for the tournament itself
endpointOfTournament(tool, args) ==
    CASE tool = "get_tournaments" -> <<"tournaments">>
      [] tool = "get_tournament_details" -> <<"tournaments", "/">> \o args.id
      [] tool = "get_tournament_standings" -> <<"tournaments", "/">> \o args.id \o <<"/", "standings">>
      [] tool = "get_tournament_pairings" -> <<"tournaments", "/">> \o args.id \o <<"/", "pairings">>

\* the endpoint each handler asks for
endpointOf(tool, args) ==
    CASE tool = "get_tournaments" -> <<"tournaments">>
      [] tool = "get_tournament_details" -> <<"tournaments", "/">> \o args.id \o <<"/", "details">>
      [] tool = "get_tournament_standings" -> <<"tournaments", "/">> \o args.id \o <<"/", "standings">>
      [] tool = "get_tournament_pairings" -> <<"tournaments", "/">> \o args.id \o <<"/", "pairings">>

\* the second argument of limitlessRequest in each handler
paramsOf(tool, args) ==
    IF tool = "get_tournaments" THEN queryParamsOf(args) ELSE <<>>

TextContent(text) == <<[type |-> "text", text |-> text]>>

\* mutant: the catch block returns its message without the error flag
errorEnvelopeUnflagged(tool, error) ==
    LET what == CASE tool = "get_tournaments" -> "tournaments"
                  [] tool = "get_tournament_details" -> "tournament details"
                  [] tool = "get_tournament_standings" -> "tournament standings"
                  [] tool = "get_tournament_pairings" -> "tournament pairings"
    IN  [content |-> TextContent("Error fetching " \o what \o ": " \o ErrorToString(error))]

\* the catch block of a handler
errorEnvelope(tool, error) ==
    LET what == CASE tool = "get_tournaments" -> "tournaments"
                  [] tool = "get_tournament_details" -> "tournament details"
                  [] tool = "get_tournament_standings" -> "tournament standings"
                  [] tool = "get_tournament_pairings" -> "tournament pairings"
    IN  [isError |-> TRUE,
         content |-> TextContent("Error fetching " \o what \o ": " \o ErrorToString(error))]

\* `tournament.name` throws on null and is undefined on a value without it
nameOf(tournament) ==
    IF tournament.t = "object" THEN Lookup(tournament.fields, "name") ELSE Undefined

\* the text of a handler's success envelope in the fallback program
fallbackText(tool, args, data) ==
    CASE tool = "get_tournaments" -> "# " \o titleOf(args)
      [] tool = "get_tournament_details" ->
            "# Tournament: " \o (IF Truthy(nameOf(data)) THEN String(nameOf(data))
                                                        ELSE Join(args.id))
      [] tool = "get_tournament_standings" -> "# Tournament Standings"
      [] tool = "get_tournament_pairings" -> "# Tournament Pairings"

\* the rest of a handler's try block once limitlessRequest has returned `data`:
\* it returns the success envelope, or throws on `tournament.name` of null
tryReturns(prog, tool, args, data) ==
    IF prog = "header"
        THEN [kind |-> "return",
              envelope |-> [content |-> TextContent(Stringify(data, 0, 0))]]
    ELSE IF tool = "get_tournament_details" /\ data = Null
        THEN [kind |-> "throw", error |-> NullError]
    ELSE [kind |-> "return",
          envelope |-> [content |-> TextContent(fallbackText(tool, args, data) \o "\n\n"
                                                \o Stringify(data, 2, 0))]]

\* mutant: the catch block rethrows
handlerRethrows(tool, error) == [kind |-> "throw", error |-> error]

\* the catch block of a handler returns the error envelope
handlerCatches(tool, error) ==
    [kind |-> "return", envelope |-> errorEnvelope(tool, error)]

\* a handler from the point where limitlessRequest settles to its end;
\* `outcome` is what limitlessRequest returned or threw
handlerSettles(prog, tool, args, outcome) ==
    LET try == IF outcome.kind = "return"
                   THEN tryReturns(prog, tool, args, outcome.value)
                   ELSE outcome
    IN  IF try.kind = "throw" THEN handlerCatches(tool, try.error) ELSE try

----------------------------------------------------------------------------
(* The resource handlers of part_001 and part_002 *)

Resources ==
    {"tournaments", "tournament", "tournament-details", "tournament-standings",
     "tournament-decklists", "tournament-pairings", "decklist"}

\* the resources each program registers
registered(prog) ==
    IF prog = "resources"
        THEN {"tournaments", "tournament", "tournament-standings",
              "tournament-decklists", "decklist"}
    ELSE IF prog = "filtered-resources"
        THEN {"tournaments", "tournament-details", "tournament-standings",
              "tournament-pairings"}
    ELSE {}

\* the endpoint each resource handler asks for
resourceEndpoint(resource, variables) ==
    CASE resource = "tournaments" -> <<"tournaments">>
      [] resource = "tournament" -> <<"tournaments", "/">> \o variables.id
      [] resource = "tournament-details" ->
            <<"tournaments", "/">> \o variables.id \o <<"/", "details">>
      [] resource = "tournament-standings" ->
            <<"tournaments", "/">> \o variables.id \o <<"/", "standings">>
      [] resource = "tournament-decklists" ->
            <<"tournaments", "/">> \o variables.id \o <<"/", "decklists">>
      [] resource = "tournament-pairings" ->
            <<"tournaments", "/">> \o variables.id \o <<"/", "pairings">>
      [] resource = "decklist" -> <<"decklists", "/">> \o variables.id

\* the params each resource handler passes: part_002 builds them from the
\* template's variables, part_001 passes none
resourceParams(prog, resource, variables) ==
    IF prog = "filtered-resources" /\ resource = "tournaments"
        THEN queryParamsOf(variables)
        ELSE <<>>

\* uri.href, the URI the client read
href(resource, variables) ==
    CASE resource = "tournaments" ->
            LET pairs == SelectSeq(<<<<"game", variables.game>>, <<"format", variables.format>>,
                                     <<"organizerId", variables.organizerId>>,
                                     <<"limit", variables.limit>>, <<"page", variables.page>>>>,
                                   LAMBDA e : e[2] # Undefined)
                query == [k \in 1..Len(pairs) |->
                            (IF k = 1 THEN "?" ELSE "&") \o pairs[k][1] \o "=" \o pairs[k][2].v]
            IN  "limitless://tournaments" \o Join(query)
      [] resource = "tournament" -> "limitless://tournament/" \o Join(variables.id)
      [] resource = "tournament-details" ->
            "limitless://tournament/" \o Join(variables.id) \o "/details"
      [] resource = "tournament-standings" ->
            "limitless://tournament/" \o Join(variables.id) \o "/standings"
      [] resource = "tournament-decklists" ->
            "limitless://tournament/" \o Join(variables.id) \o "/decklists"
      [] resource = "tournament-pairings" ->
            "limitless://tournament/" \o Join(variables.id) \o "/pairings"
      [] resource = "decklist" -> "limitless://decklist/" \o Join(variables.id)

\* decklist.player of null
NullPlayerError ==
    [name |-> "TypeError", message |-> "Cannot read properties of null (reading 'player')"]

\* `decklist.player?.name`: undefined unless player is an object with a name
playerNameOf(decklist) ==
    LET player == IF decklist.t = "object" THEN Lookup(decklist.fields, "player")
                                           ELSE Undefined
    IN  IF player \in {Undefined, Null} THEN Undefined ELSE nameOf(player)

\* `${x || id}`
orId(value, id) == IF Truthy(value) THEN String(value) ELSE Join(id)

\* the metadata of a resource's contents
metadataOf(prog, resource, variables, data) ==
    CASE resource = "tournaments" ->
            [title |-> IF prog = "filtered-resources" THEN titleOf(variables)
                                                     ELSE "Limitless TCG Tournaments",
             description |-> "List of tournaments from Limitless TCG"]
      [] resource \in {"tournament", "tournament-details"} ->
            [title |-> "Tournament: " \o orId(nameOf(data), variables.id),
             description |-> "Details for tournament " \o orId(nameOf(data), variables.id)]
      [] resource = "tournament-standings" ->
            [title |-> "Tournament Standings",
             description |-> "Standings for tournament ID " \o Join(variables.id)]
      [] resource = "tournament-decklists" ->
            [title |-> "Tournament Decklists",
             description |-> "Decklists for tournament ID " \o Join(variables.id)]
      [] resource = "tournament-pairings" ->
            [title |-> "Tournament Pairings",
             description |-> "Match pairings for tournament ID " \o Join(variables.id)]
      [] resource = "decklist" ->
            [title |-> "Decklist: " \o orId(playerNameOf(data), variables.id),
             description |-> "Decklist details for ID " \o Join(variables.id)]

\* mutant: the resource handler turns an error into contents
resourceCatches(prog, resource, variables, outcome) ==
    IF outcome.kind = "throw"
        THEN [kind |-> "return",
              contents |-> <<[uri |-> href(resource, variables),
                              isError |-> TRUE,
                              text |-> "Error: " \o ErrorToString(outcome.error)]>>]
    ELSE IF resource \in {"tournament", "tournament-details"} /\ outcome.value = Null
        THEN [kind |-> "throw", error |-> NullError]
    ELSE IF resource = "decklist" /\ outcome.value = Null
        THEN [kind |-> "throw", error |-> NullPlayerError]
    ELSE [kind |-> "return",
          contents |-> <<[uri |-> href(resource, variables),
                          metadata |-> metadataOf(prog, resource, variables, outcome.value),
                          text |-> Stringify(outcome.value, 2, 0)]>>]

\* a resource handler from the point where limitlessRequest settles to its
\* end: no try block, so what limitlessRequest throws leaves the handler, as
\* does the TypeError of `.name` or `.player` on a null payload
resourceSettles(prog, resource, variables, outcome) ==
    IF outcome.kind = "throw" THEN outcome
    ELSE IF resource \in {"tournament", "tournament-details"} /\ outcome.value = Null
        THEN [kind |-> "throw", error |-> NullError]
    ELSE IF resource = "decklist" /\ outcome.value = Null
        THEN [kind |-> "throw", error |-> NullPlayerError]
    ELSE [kind |-> "return",
          contents |-> <<[uri |-> href(resource, variables),
                          metadata |-> metadataOf(prog, resource, variables, outcome.value),
                          text |-> Stringify(outcome.value, 2, 0)]>>]

----------------------------------------------------------------------------
(* State of one invocation *)

NoArgs == [id |-> <<>>]
NoResponse == [status |-> 0, statusText |-> ""]
NoError == [name |-> "", message |-> ""]
Pending == [kind |-> "pending"]

IdleSlot ==
    [pc |-> "idle",            \* idle, fetch (awaiting fetch), json (awaiting response.json()), done
     tool |-> "none",          \* the handler running, or "direct" for a bare call of the client
     raw |-> NoArgs,           \* the arguments as the caller gave them
     args |-> NoArgs,          \* the arguments as the handler received them
     endpoint |-> <<>>,        \* limitlessRequest's endpoint
     params |-> <<>>,          \* limitlessRequest's params, as Object.entries lists them
     useHeaderAuth |-> FALSE,  \* limitlessRequest's useHeaderAuth of the running attempt
     calls |-> 0,              \* calls of limitlessRequest made by the caller
     attempts |-> <<>>,        \* every outbound request and what became of it
     outcome |-> Pending,      \* what limitlessRequest gave its caller: return or throw
     result |-> Pending]       \* what the handler gave the protocol layer: return or throw

\* an outbound request as the upstream sees it, and its fate
Attempt(request, useHeaderAuth) ==
    [request |-> request, useHeaderAuth |-> useHeaderAuth, state |-> "inflight",
     response |-> NoResponse, body |-> "", error |-> NoError]

Last(seq) == seq[Len(seq)]
SetLast(seq, x) == [seq EXCEPT ![Len(seq)] = x]

\* limitlessRequest up to `await fetch(url.toString(), { headers })`
Send(slot, useHeaderAuth) ==
    [slot EXCEPT
        !.pc = "fetch",
        !.useHeaderAuth = useHeaderAuth,
        !.attempts = Append(@, Attempt(fetchArgs(program, slot.endpoint, slot.params,
                                                 useHeaderAuth, validApiKey),
                                       useHeaderAuth))]

\* a handler (or a bare caller) calls limitlessRequest(endpoint, params[, useHeaderAuth])
Call(slot, endpoint, params, useHeaderAuth) ==
    Send([slot EXCEPT !.endpoint = endpoint, !.params = params, !.calls = @ + 1],
         useHeaderAuth)

\* limitlessRequest settles with `outcome`, and its caller runs to its end
Settles(slot, outcome) ==
    [slot EXCEPT
        !.pc = "done",
        !.outcome = outcome,
        !.result = IF slot.tool = "direct" THEN outcome
                   ELSE IF slot.tool \in Resources
                       THEN resourceSettles(program, slot.tool, slot.args, outcome)
                   ELSE handlerSettles(program, slot.tool, slot.args, outcome)]

\* mutant: the payload is wrapped before it is returned
ReturnsWrapped(slot, data) ==
    Settles(slot, [kind |-> "return", value |-> Obj(<<<<"data", data>>>>)])

\* `return data`
Returns(slot, data) == Settles(slot, [kind |-> "return", value |-> data])

\* mutant: the catch block throws the error of the first request
CatchesAndThrowsFirst(slot, error) ==
    IF shouldRetry(program, slot.useHeaderAuth)
        THEN Send(slot, TRUE)
        ELSE Settles(slot, [kind |-> "throw", error |-> slot.attempts[1].error])

\* mutant: the catch block retries without the params
CatchesAndRetriesBare(slot, error) ==
    IF shouldRetry(program, slot.useHeaderAuth)
        THEN [Send([slot EXCEPT !.params = <<>>], TRUE) EXCEPT !.params = slot.params]
        ELSE Settles(slot, [kind |-> "throw", error |-> error])

\* mutant: the catch block swallows a header-mode failure and never settles
CatchesAndHangs(slot, error) ==
    IF shouldRetry(program, slot.useHeaderAuth)
        THEN Send(slot, TRUE)
        ELSE [slot EXCEPT !.pc = "hung"]

\* the catch block of limitlessRequest: retry in header mode, or `throw error`
Catches(slot, error) ==
    IF shouldRetry(program, slot.useHeaderAuth)
        THEN Send(slot, TRUE)
        ELSE Settles(slot, [kind |-> "throw", error |-> error])

\* the running attempt is marked with its fate
Settle(slot, state, response, body, error) ==
    [slot EXCEPT !.attempts = SetLast(@, [Last(@) EXCEPT !.state = state,
                                                         !.response = response,
                                                         !.body = body,
                                                         !.error = error])]

----------------------------------------------------------------------------
(* Inputs *)

Programs == {"fallback", "header", "legacy"}
Keys == {"k3y", "s3cr3t"}

\* the argument api-key=<value>, the value given as tokens
ApiKeyArg(value) == <<"api-key", "=">> \o value
\* environments and command lines of the startup specification
EnvIn == {Undefined, Str(""), Str("s3cr3t")}
ArgsIn ==
    { ApiKeyArg(<<"k3y">>), ApiKeyArg(<<"ab", "=", "cd">>), ApiKeyArg(<<>>),
      <<"--verbose">> }
ArgvIn == UNION { [1..n -> ArgsIn] : n \in 0..MaxArgs }

GameIn == {Undefined, Null, Str("VGC")}
FormatIn == {Undefined, Str(""), Str("standard")}
OrganizerIn == {Undefined, Str("42")}
LimitIn == {Undefined, Num(0), Num(10), Str("5")}
PageIn == {Undefined, Null, Num(2)}
ListInputs ==
    [game : GameIn, format : FormatIn, organizerId : OrganizerIn,
     limit : LimitIn, page : PageIn]
Ids == {<<"123">>, <<"abc">>, <<>>}
Tools ==
    {"get_tournaments", "get_tournament_details", "get_tournament_standings",
     "get_tournament_pairings"}

\* the resource servers, and the variables a resource template extracts from
\* a URI: strings, or undefined for a query variable the URI does not have
ResourcePrograms == {"resources", "filtered-resources"}
VariablesIn ==
    [game : {Undefined, Str("VGC")}, format : {Undefined, Str("")},
     organizerId : {Undefined}, limit : {Undefined, Str("10")}, page : {Undefined}]
NoVariables ==
    [game |-> Undefined, format |-> Undefined, organizerId |-> Undefined,
     limit |-> Undefined, page |-> Undefined]

\* inputs of a bare call of the client
Absent == [t |-> "absent"]
ParamKeys == <<"format", "limit">>
ParamValuesIn == {Undefined, Null, Str("VGC"), Num(0)}
ObjectEntries(f) ==
    SelectSeq([k \in 1..Len(ParamKeys) |-> <<ParamKeys[k], f[ParamKeys[k]]>>],
              LAMBDA e : e[2] # Absent)
ParamsIn ==
    { ObjectEntries(f) :
        f \in [{ParamKeys[k] : k \in 1..Len(ParamKeys)} -> ParamValuesIn \cup {Absent}] }
EndpointsIn ==
    UNION { [1..n -> {"/", "tournaments"}] : n \in 1..MaxEndpointLen }

----------------------------------------------------------------------------
(* Actions *)

\* the process before its first statement, in one of the given environments
\* and with one of the given command lines
Configured(envs, argvs) ==
    /\ program \in Programs
    /\ env \in envs
    /\ argv \in argvs
    /\ process = "starting"
    /\ validApiKey = ""
    /\ inv = [i \in Slots |-> IdleSlot]

\* a process given its key by the environment or by the command line
Init == Configured({Undefined, Str("s3cr3t")}, {<<ApiKeyArg(<<"k3y">>)>>})

\* a process in any environment and with any command line
InitStartup == Configured(EnvIn, ArgvIn)

\* the module's top level: resolve the key, exit without one, else connect
Start ==
    /\ process = "starting"
    /\ LET apiKey == apiKeyOf(program, env, argv)
       IN  IF ~Truthy(apiKey)
               THEN process' = "exited" /\ UNCHANGED validApiKey
               ELSE process' = "serving" /\ validApiKey' = apiKey.v
    /\ UNCHANGED <<program, env, argv, inv>>

\* mutant: a handler answers from the payload another invocation was given
\* for the same endpoint and params
InvokedCached(slot, tool, raw, args) ==
    LET fresh == [slot EXCEPT !.tool = tool, !.raw = raw, !.args = args]
        hits == { j \in Slots : /\ inv[j].pc = "done"
                                /\ inv[j].outcome.kind = "return"
                                /\ inv[j].endpoint = endpointOf(tool, args)
                                /\ inv[j].params = paramsOf(tool, args) }
    IN  IF hits = {}
            THEN Call(fresh, endpointOf(tool, args), paramsOf(tool, args), program = "header")
            ELSE Settles([fresh EXCEPT !.endpoint = endpointOf(tool, args),
                                       !.params = paramsOf(tool, args),
                                       !.calls = 1],
                         inv[CHOOSE j \in hits : TRUE].outcome)

\* a handler from its start to `await limitlessRequest(...)`, which runs to `await fetch`
Invoked(slot, tool, raw, args) ==
    Call([slot EXCEPT !.tool = tool, !.raw = raw, !.args = args],
         endpointOf(tool, args), paramsOf(tool, args), program = "header")

get_tournaments(i) ==
    /\ process = "serving"
    /\ inv[i].pc = "idle"
    /\ \E raw \in ListInputs :
        /\ schemaAccepts(program, raw)
        /\ inv' = [inv EXCEPT ![i] =
                    Invoked(@, "get_tournaments", raw, tournamentsParamsSchema(program, raw))]
    /\ UNCHANGED config

get_tournament_details(i) ==
    /\ process = "serving"
    /\ inv[i].pc = "idle"
    /\ \E id \in Ids :
        inv' = [inv EXCEPT ![i] =
                 Invoked(@, "get_tournament_details", [id |-> id], [id |-> id])]
    /\ UNCHANGED config

get_tournament_standings(i) ==
    /\ process = "serving"
    /\ inv[i].pc = "idle"
    /\ \E id \in Ids :
        inv' = [inv EXCEPT ![i] =
                 Invoked(@, "get_tournament_standings", [id |-> id], [id |-> id])]
    /\ UNCHANGED config

get_tournament_pairings(i) ==
    /\ process = "serving"
    /\ inv[i].pc = "idle"
    /\ \E id \in Ids :
        inv' = [inv EXCEPT ![i] =
                 Invoked(@, "get_tournament_pairings", [id |-> id], [id |-> id])]
    /\ UNCHANGED config

\* a resource handler from its start to `await limitlessRequest(...)`
Read(slot, resource, variables) ==
    Call([slot EXCEPT !.tool = resource, !.raw = variables, !.args = variables],
         resourceEndpoint(resource, variables),
         resourceParams(program, resource, variables), FALSE)

\* the resource limitless://tournaments, in part_002 with its query variables
tournaments_resource(i) ==
    /\ process = "serving"
    /\ "tournaments" \in registered(program)
    /\ inv[i].pc = "idle"
    /\ \E variables \in VariablesIn :
        /\ program = "resources" => variables = NoVariables
        /\ inv' = [inv EXCEPT ![i] = Read(@, "tournaments", variables)]
    /\ UNCHANGED config

\* the resource limitless://tournament/{id} of part_001
tournament_resource(i) ==
    /\ process = "serving"
    /\ "tournament" \in registered(program)
    /\ inv[i].pc = "idle"
    /\ \E id \in Ids :
        inv' = [inv EXCEPT ![i] = Read(@, "tournament", [id |-> id])]
    /\ UNCHANGED config

\* the resource limitless://tournament/{id}/details of part_002
tournament_details_resource(i) ==
    /\ process = "serving"
    /\ "tournament-details" \in registered(program)
    /\ inv[i].pc = "idle"
    /\ \E id \in Ids :
        inv' = [inv EXCEPT ![i] = Read(@, "tournament-details", [id |-> id])]
    /\ UNCHANGED config

\* the resource limitless://tournament/{id}/standings
tournament_standings_resource(i) ==
    /\ process = "serving"
    /\ "tournament-standings" \in registered(program)
    /\ inv[i].pc = "idle"
    /\ \E id \in Ids :
        inv' = [inv EXCEPT ![i] = Read(@, "tournament-standings", [id |-> id])]
    /\ UNCHANGED config

\* the resource limitless://tournament/{id}/decklists of part_001
tournament_decklists_resource(i) ==
    /\ process = "serving"
    /\ "tournament-decklists" \in registered(program)
    /\ inv[i].pc = "idle"
    /\ \E id \in Ids :
        inv' = [inv EXCEPT ![i] = Read(@, "tournament-decklists", [id |-> id])]
    /\ UNCHANGED config

\* the resource limitless://tournament/{id}/pairings of part_002
tournament_pairings_resource(i) ==
    /\ process = "serving"
    /\ "tournament-pairings" \in registered(program)
    /\ inv[i].pc = "idle"
    /\ \E id \in Ids :
        inv' = [inv EXCEPT ![i] = Read(@, "tournament-pairings", [id |-> id])]
    /\ UNCHANGED config

\* the resource limitless://decklist/{id} of part_001
decklist_resource(i) ==
    /\ process = "serving"
    /\ "decklist" \in registered(program)
    /\ inv[i].pc = "idle"
    /\ \E id \in Ids :
        inv' = [inv EXCEPT ![i] = Read(@, "decklist", [id |-> id])]
    /\ UNCHANGED config

\* a bare call limitlessRequest(endpoint, params[, useHeaderAuth]), as a test of
\* the client makes it; the header program's client takes no flag
limitlessRequest(i) ==
    /\ process = "serving"
    /\ inv[i].pc = "idle"
    /\ \E endpoint \in EndpointsIn, params \in ParamsIn, useHeaderAuth \in BOOLEAN :
        /\ program = "header" => useHeaderAuth
        /\ inv' = [inv EXCEPT ![i] =
                    Call([@ EXCEPT !.tool = "direct"], endpoint, params, useHeaderAuth)]
    /\ UNCHANGED config

\* fetch rejects: the exchange did not complete
FetchRejects(i) ==
    /\ inv[i].pc = "fetch"
    /\ inv' = [inv EXCEPT ![i] =
                Catches(Settle(@, "failed", NoResponse, "", NetworkError), NetworkError)]
    /\ UNCHANGED config

\* fetch resolves with a status that is not a success: `throw new Error(...)`
FetchFails(i) ==
    /\ inv[i].pc = "fetch"
    /\ \E response \in StatusLines :
        /\ ~ok(response)
        /\ inv' = [inv EXCEPT ![i] =
                    Catches(Settle(@, "failed", response, "", HttpError(response)),
                            HttpError(response))]
    /\ UNCHANGED config

\* fetch resolves with a success status: on to `await response.json()`
FetchSucceeds(i) ==
    /\ inv[i].pc = "fetch"
    /\ \E response \in StatusLines :
        /\ ok(response)
        /\ inv' = [inv EXCEPT ![i] =
                    [Settle(@, "reading", response, "", NoError) EXCEPT !.pc = "json"]]
    /\ UNCHANGED config

\* response.json() resolves: `return data`
JsonResolves(i) ==
    /\ inv[i].pc = "json"
    /\ \E body \in ValidBodies :
        inv' = [inv EXCEPT ![i] =
                 Returns(Settle(@, "succeeded", Last(@.attempts).response, body, NoError),
                         JSONparse(body))]
    /\ UNCHANGED config

\* mutant: the rejection of response.json() escapes the try block
JsonRejectsUncaught(i) ==
    /\ inv[i].pc = "json"
    /\ \E body \in InvalidBodies :
        inv' = [inv EXCEPT ![i] =
                 Settles(Settle(@, "failed", Last(@.attempts).response, body, JsonError),
                         [kind |-> "throw", error |-> JsonError])]
    /\ UNCHANGED config

\* response.json() rejects: the body is no JSON
JsonRejects(i) ==
    /\ inv[i].pc = "json"
    /\ \E body \in InvalidBodies :
        inv' = [inv EXCEPT ![i] =
                 Catches(Settle(@, "failed", Last(@.attempts).response, body, JsonError),
                         JsonError)]
    /\ UNCHANGED config

\* the upstream's and the network's part in an invocation
Resolve(i) ==
    \/ FetchRejects(i)
    \/ FetchFails(i)
    \/ FetchSucceeds(i)
    \/ JsonResolves(i)
    \/ JsonRejects(i)

\* the server handling one invocation
Next ==
    \/ Start
    \/ \E i \in {1} :
        \/ get_tournaments(i)
        \/ get_tournament_details(i)
        \/ get_tournament_standings(i)
        \/ get_tournament_pairings(i)
        \/ Resolve(i)

Spec == Init /\ [][Next]_vars

\* the server, every outbound request eventually resolving: the upstream or
\* the network answers each pending fetch and each pending body read
SpecLive == Spec /\ \A i \in Slots : WF_vars(Resolve(i))

\* the request client called on its own
NextClient ==
    \/ Start
    \/ \E i \in {1} :
        \/ limitlessRequest(i)
        \/ Resolve(i)

SpecClient == Init /\ [][NextClient]_vars

\* startup in every environment, followed by one invocation
NextStartup ==
    \/ Start
    \/ \E i \in {1} :
        \/ get_tournament_standings(i)
        \/ Resolve(i)

SpecStartup == InitStartup /\ [][NextStartup]_vars

\* the resource servers reading one resource
NextResources ==
    \/ Start
    \/ \E i \in {1} :
        \/ tournaments_resource(i)
        \/ tournament_resource(i)
        \/ tournament_details_resource(i)
        \/ tournament_standings_resource(i)
        \/ tournament_decklists_resource(i)
        \/ tournament_pairings_resource(i)
        \/ decklist_resource(i)
        \/ Resolve(i)

InitResources ==
    /\ program \in ResourcePrograms
    /\ env \in {Undefined, Str("s3cr3t")}
    /\ argv \in {<<>>, <<ApiKeyArg(<<"k3y">>)>>}
    /\ process = "starting"
    /\ validApiKey = ""
    /\ inv = [i \in Slots |-> IdleSlot]

SpecResources == InitResources /\ [][NextResources]_vars

\* the inputs of the invocations that run side by side
InterleavedInputs ==
    { [game |-> Str("VGC"), format |-> Undefined, organizerId |-> Undefined,
       limit |-> Num(10), page |-> Undefined],
      [id |-> <<"123">>] }

\* the event loop serving several invocations: each `await` of one lets the
\* others run
NextInterleaved ==
    \/ Start
    \/ \E i \in Slots :
        \/ get_tournaments(i) /\ inv'[i].raw \in InterleavedInputs
        \/ get_tournament_details(i) /\ inv'[i].raw \in InterleavedInputs
        \/ Resolve(i)

\* the fallback program, given its key on the command line
InitInterleaved ==
    /\ Configured({Undefined}, {<<ApiKeyArg(<<"k3y">>)>>})
    /\ program = "fallback"

SpecInterleaved == InitInterleaved /\ [][NextInterleaved]_vars

----------------------------------------------------------------------------
(* What the upstream observes of a request *)

QueryNames(request) ==
    { request.url.searchParams[k][1] : k \in 1..Len(request.url.searchParams) }
QueryValues(request, name) ==
    { request.url.searchParams[k][2] :
        k \in { j \in 1..Len(request.url.searchParams) :
                    request.url.searchParams[j][1] = name } }
QueryCount(request, name) ==
    Cardinality({ k \in 1..Len(request.url.searchParams) :
                    request.url.searchParams[k][1] = name })
HeaderNames(request) == { h[1] : h \in request.headers }
HeaderValues(request, name) == { h[2] : h \in { g \in request.headers : g[1] = name } }

\* the credential travels as the `key` query parameter only
KeyInQueryOnly(request) ==
    /\ QueryCount(request, "key") = 1
    /\ QueryValues(request, "key") = {validApiKey}
    /\ "X-Access-Key" \notin HeaderNames(request)
\* the credential travels as the X-Access-Key header only
KeyInHeaderOnly(request) ==
    /\ HeaderValues(request, "X-Access-Key") = {validApiKey}
    /\ Cardinality(request.headers) = 1
    /\ "key" \notin QueryNames(request)

HeaderAttempts(slot) ==
    { k \in 1..Len(slot.attempts) : slot.attempts[k].useHeaderAuth }
UnsettledAttempts(slot) ==
    { k \in 1..Len(slot.attempts) : slot.attempts[k].state \in {"inflight", "reading"} }

----------------------------------------------------------------------------
(* Claims *)

\* C1: an attempt that fails in query-parameter mode is followed by exactly one
\* more request, in header mode; if that one succeeds the call returns its
\* parsed body and the upstream has seen exactly two requests, the first with
\* the `key` query parameter and no X-Access-Key header, the second with
\* X-Access-Key and no `key` query parameter.
C1_FallbackOnceInHeaderMode ==
    \A i \in Slots :
        LET slot == inv[i]
            a == slot.attempts
        IN  \A k \in 1..Len(a) :
                (~a[k].useHeaderAuth /\ a[k].state = "failed") =>
                    /\ Len(a) = k + 1
                    /\ a[k + 1].useHeaderAuth
                    /\ a[k + 1].state = "succeeded" =>
                        /\ slot.pc = "done"
                        /\ slot.outcome = [kind |-> "return", value |-> JSONparse(a[k + 1].body)]
                        /\ Len(a) = 2
                        /\ KeyInQueryOnly(a[1].request)
                        /\ KeyInHeaderOnly(a[2].request)

C1_Witness ==
    \E i \in Slots :
        /\ inv[i].pc = "done"
        /\ Len(inv[i].attempts) = 2
        /\ ~inv[i].attempts[1].useHeaderAuth
        /\ inv[i].attempts[1].state = "failed"
        /\ inv[i].attempts[2].state = "succeeded"
        /\ inv[i].outcome.kind = "return"

\* C2: a failure in header mode is propagated to the caller after that one
\* request: no call ever issues more than one header-mode request.
C2_NoRetryFromHeaderMode ==
    \A i \in Slots :
        LET slot == inv[i]
            a == slot.attempts
        IN  /\ Cardinality(HeaderAttempts(slot)) <= 1
            /\ \A k \in 1..Len(a) :
                (a[k].useHeaderAuth /\ a[k].state = "failed") =>
                    /\ k = Len(a)
                    /\ slot.pc = "done"
                    /\ slot.outcome = [kind |-> "throw", error |-> a[k].error]

C2_Witness ==
    \E i \in Slots :
        /\ program = "fallback"
        /\ inv[i].pc = "done"
        /\ inv[i].outcome.kind = "throw"
        /\ Len(inv[i].attempts) = 2
        /\ inv[i].attempts[2].useHeaderAuth
        /\ inv[i].attempts[2].state = "failed"

\* C3: every outbound request carries the credential in exactly one place, the
\* `key` query parameter in query-parameter mode and the X-Access-Key header
\* in header mode.
C3_CredentialInOnePlace ==
    \A i \in Slots :
        \A k \in 1..Len(inv[i].attempts) :
            LET attempt == inv[i].attempts[k]
            IN  IF attempt.useHeaderAuth
                    THEN KeyInHeaderOnly(attempt.request)
                    ELSE KeyInQueryOnly(attempt.request)

C3_Witness ==
    \E i \in Slots :
        /\ Len(inv[i].attempts) = 2
        /\ ~inv[i].attempts[1].useHeaderAuth
        /\ inv[i].attempts[2].useHeaderAuth
        /\ Len(inv[i].params) > 0

\* C4: a failure raised during a tool invocation ends in a returned envelope
\* with the error flag set; no handler ever throws.
C4_FailuresBecomeErrorEnvelopes ==
    \A i \in Slots :
        LET slot == inv[i]
            failed ==
                \/ slot.outcome.kind = "throw"
                \/ /\ program # "header"
                   /\ slot.tool = "get_tournament_details"
                   /\ slot.outcome = [kind |-> "return", value |-> Null]
        IN  (slot.tool \in Tools /\ slot.pc = "done") =>
                /\ slot.result.kind = "return"
                /\ failed =>
                    /\ "isError" \in DOMAIN slot.result.envelope
                    /\ slot.result.envelope.isError = TRUE

C4_Witness ==
    \E i \in Slots :
        /\ inv[i].tool \in Tools
        /\ inv[i].pc = "done"
        /\ inv[i].outcome.kind = "throw"
        /\ inv[i].result.kind = "return"
        /\ inv[i].result.envelope.isError = TRUE

\* C5: in both authentication modes, a parameter whose value is undefined is
\* absent from the URL and every other parameter appears once, as name=value
\* with the value in its string form.
C5_ParamsInUrl ==
    \A i \in Slots :
        \A k \in 1..Len(inv[i].attempts) :
            LET request == inv[i].attempts[k].request
                params == inv[i].params
            IN  /\ \A j \in 1..Len(params) :
                    IF params[j][2] = Undefined
                        THEN params[j][1] \notin QueryNames(request)
                        ELSE /\ QueryCount(request, params[j][1]) = 1
                             /\ QueryValues(request, params[j][1]) = {String(params[j][2])}
                /\ QueryNames(request) \ {"key"} \subseteq
                        { params[j][1] : j \in 1..Len(params) }

C5_Witness ==
    \E i \in Slots :
        /\ inv[i].params = <<<<"format", Undefined>>, <<"limit", Num(0)>>>>
        /\ Len(inv[i].attempts) = 2
        /\ inv[i].attempts[2].useHeaderAuth
        /\ inv[i].attempts[2].request.url.searchParams = <<<<"limit", "0">>>>

\* the path of a request below `<API base>/`
EffectivePath(request) ==
    SubSeq(request.url.pathname, Len(API_BASE_URL.pathname) + 2,
           Len(request.url.pathname))

\* C6: an endpoint with a leading separator is requested with exactly one
\* leading separator stripped, any other endpoint unchanged.
C6_LeadingSeparatorStripped ==
    \A i \in Slots :
        \A k \in 1..Len(inv[i].attempts) :
            LET endpoint == inv[i].endpoint
                path == EffectivePath(inv[i].attempts[k].request)
            IN  IF endpoint[1] = "/"
                    THEN /\ Len(path) = Len(endpoint) - 1
                         /\ \A j \in 1..Len(path) : path[j] = endpoint[j + 1]
                    ELSE path = endpoint

\* the error is the one thrown for `response`
CarriesStatus(error, response) ==
    /\ error.name = "Error"
    /\ error.message =
        "API request failed: " \o ToString(response.status) \o " " \o response.statusText
\* the attempt was answered with a status that is not a success
FailedOnStatus(attempt) ==
    /\ attempt.state = "failed"
    /\ attempt.response # NoResponse
    /\ ~ok(attempt.response)

\* C7: an attempt answered with a non-success status fails with an error that
\* carries the status code and the status text, and so does the error the
\* caller gets when every attempt failed on its status.
C7_StatusErrorCarriesStatus ==
    \A i \in Slots :
        LET slot == inv[i]
            a == slot.attempts
        IN  /\ \A k \in 1..Len(a) :
                FailedOnStatus(a[k]) => CarriesStatus(a[k].error, a[k].response)
            /\ (slot.pc = "done" /\ \A k \in 1..Len(a) : FailedOnStatus(a[k])) =>
                /\ slot.outcome.kind = "throw"
                /\ CarriesStatus(slot.outcome.error, Last(a).response)

C7_Witness ==
    \E i \in Slots :
        /\ inv[i].pc = "done"
        /\ Len(inv[i].attempts) = 2
        /\ FailedOnStatus(inv[i].attempts[1])
        /\ FailedOnStatus(inv[i].attempts[2])
        /\ inv[i].attempts[1].response.status = 401
        /\ inv[i].attempts[2].response.status = 404
        /\ inv[i].outcome.error.message = "API request failed: 404 Not Found"

\* C8: an attempt answered with a success status and a JSON body makes
\* limitlessRequest return that body parsed, and the handler gets the payload
\* as the upstream sent it (the header program's envelope is its text again).
C8_PayloadPassedThrough ==
    \A i \in Slots :
        LET slot == inv[i]
            a == slot.attempts
        IN  \A k \in 1..Len(a) :
                a[k].state = "succeeded" =>
                    /\ k = Len(a)
                    /\ slot.pc = "done"
                    /\ \E e \in ParseTable :
                        /\ e[1] = a[k].body
                        /\ slot.outcome = [kind |-> "return", value |-> e[2]]
                    /\ (program = "header" /\ slot.tool \in Tools) =>
                        slot.result.envelope.content[1].text = a[k].body

C8_Witness ==
    \E i \in Slots :
        /\ inv[i].pc = "done"
        /\ inv[i].tool = "get_tournament_standings"
        /\ Last(inv[i].attempts).state = "succeeded"
        /\ Last(inv[i].attempts).body = "{\"name\":\"Cup\"}"
        /\ inv[i].outcome.value = Obj(<<<<"name", Str("Cup")>>>>)

\* C9: a handler calls limitlessRequest exactly once; an invocation issues one
\* outbound request, or two under fallback, never more, and never has two
\* unsettled at the same time.
C9_OneCallAtMostTwoRequests ==
    \A i \in Slots :
        LET slot == inv[i]
            a == slot.attempts
        IN  slot.tool \in Tools =>
                /\ slot.calls = 1
                /\ Len(a) \in {1, 2}
                /\ Len(a) = 2 =>
                    /\ program # "header"
                    /\ ~a[1].useHeaderAuth /\ a[1].state = "failed"
                    /\ a[2].useHeaderAuth
                /\ Cardinality(UnsettledAttempts(slot)) <= 1
                /\ slot.pc = "done" <=> UnsettledAttempts(slot) = {}

C9_Witness ==
    \E i \in Slots :
        /\ inv[i].tool \in Tools
        /\ inv[i].pc = "done"
        /\ inv[i].calls = 1
        /\ Len(inv[i].attempts) = 2

Filters == {"game", "format", "organizerId", "limit", "page"}
\* a filter the caller gave a value
Supplied(value) == value \notin {Undefined, Null}
RequestsOf(slot) == { slot.attempts[k].request : k \in 1..Len(slot.attempts) }
\* the request is for `tournaments` and its filters are exactly `expected`,
\* a function from filter names to the strings sent
SendsExactly(request, expected) ==
    /\ EffectivePath(request) = <<"tournaments">>
    /\ QueryNames(request) \ {"key"} = DOMAIN expected
    /\ \A name \in DOMAIN expected :
        /\ QueryCount(request, name) = 1
        /\ QueryValues(request, name) = {expected[name]}

\* C10 as stated: get_tournaments requests `tournaments` with exactly the
\* supplied filters, each with its value, and none of the others.
C10_ExactlySuppliedFilters ==
    \A i \in Slots :
        inv[i].tool = "get_tournaments" =>
            \A request \in RequestsOf(inv[i]) :
                SendsExactly(request,
                             [f \in { g \in Filters : Supplied(inv[i].raw[g]) }
                                |-> String(inv[i].raw[f])])

\* C10 as amended: get_tournaments requests `tournaments` with exactly the
\* supplied filters whose value is truthy (not null, "" or 0), each with its
\* value, and, in the header program, game=VGC when no game is supplied.
C10_ExactlyTruthyFilters ==
    \A i \in Slots :
        inv[i].tool = "get_tournaments" =>
            LET raw == inv[i].raw
                defaulted == program = "header" /\ raw.game = Undefined
                sent == { f \in Filters : Truthy(raw[f]) }
                            \cup (IF defaulted THEN {"game"} ELSE {})
            IN  \A request \in RequestsOf(inv[i]) :
                    SendsExactly(request,
                                 [f \in sent |-> IF f = "game" /\ defaulted
                                                    THEN "VGC" ELSE String(raw[f])])

C10_Witness ==
    \E i \in Slots :
        /\ inv[i].tool = "get_tournaments"
        /\ inv[i].raw = [game |-> Str("VGC"), format |-> Undefined,
                         organizerId |-> Undefined, limit |-> Num(10), page |-> Undefined]
        /\ Len(inv[i].attempts) = 2
        /\ inv[i].attempts[1].request.url.searchParams
                = <<<<"game", "VGC">>, <<"limit", "10">>, <<"key", validApiKey>>>>
        /\ inv[i].attempts[2].request.url.searchParams
                = <<<<"game", "VGC">>, <<"limit", "10">>>>

----------------------------------------------------------------------------
\* The resource each tournament tool names in its path
SubResource ==
    [get_tournament_details |-> "details",
     get_tournament_standings |-> "standings",
     get_tournament_pairings |-> "pairings"]

----------------------------------------------------------------------------
\* neither the environment variable nor an api-key=<value> argument
NoCredentialConfigured ==
    env = Undefined /\ \A k \in 1..Len(argv) : ~startsWithApiKey(argv[k])

\* the process has served: an invocation has started or a request was sent
HasServed == \E i \in Slots : inv[i].pc # "idle" \/ inv[i].attempts # <<>>

\* C12: if no credential is configured at startup (neither the environment
\* variable nor an api-key=<value> argument), the process terminates with a
\* diagnostic and never serves an invocation or issues an outbound request.
C12_NoCredentialIsFatal ==
    NoCredentialConfigured => process # "serving" /\ ~HasServed

----------------------------------------------------------------------------
\* the <value> of the first api-key=<value> argument: all that follows the
\* first "="
ArgumentValue ==
    LET arg == findApiKeyArg(argv).items
    IN  Join(SubSeq(arg, 3, Len(arg)))

\* the credentials a request carries, in its query or in its headers
CredentialsOf(request) ==
    QueryValues(request, "key") \cup HeaderValues(request, "X-Access-Key")

\* C13: when the environment variable is not set and the command line has a
\* token api-key=<value>, the credential of every request equals <value>,
\* for every value.
C13_ArgumentValueIsCredential ==
    (env = Undefined /\ findApiKeyArg(argv) # Undefined) =>
        \A i \in Slots :
            \A request \in RequestsOf(inv[i]) :
                CredentialsOf(request) = {ArgumentValue}

----------------------------------------------------------------------------
\* what became of the k-th request of an invocation: its state, the response
\* and the body the upstream gave
FateOf(attempt) ==
    [state |-> attempt.state, response |-> attempt.response, body |-> attempt.body]

\* the error a failed request raises in the client
ErrorOf(fate) ==
    IF fate.response = NoResponse THEN NetworkError
    ELSE IF ~ok(fate.response) THEN HttpError(fate.response)
    ELSE JsonError

\* an invocation running alone from `await fetch`, its requests meeting the
\* given fates in order
RECURSIVE RunsAlone(_, _)
RunsAlone(slot, fates) ==
    IF fates = <<>> THEN slot
    ELSE LET fate == Head(fates)
         IN  CASE fate.state = "inflight" -> slot
               [] fate.state = "reading" ->
                    [Settle(slot, "reading", fate.response, "", NoError) EXCEPT !.pc = "json"]
               [] fate.state = "succeeded" ->
                    Returns(Settle(slot, "succeeded", fate.response, fate.body, NoError),
                            JSONparse(fate.body))
               [] fate.state = "failed" ->
                    RunsAlone(Catches(Settle(slot, "failed", fate.response, fate.body,
                                             ErrorOf(fate)),
                                      ErrorOf(fate)),
                              Tail(fates))

\* the invocation of slot i, had it run alone against the same responses
Alone(i) ==
    LET tool == inv[i].tool
        raw == inv[i].raw
        args == IF tool = "get_tournaments" THEN tournamentsParamsSchema(program, raw)
                                            ELSE raw
    IN  RunsAlone(Call([IdleSlot EXCEPT !.tool = tool, !.raw = raw, !.args = args],
                       endpointOf(tool, args), paramsOf(tool, args), program = "header"),
                  [k \in 1..Len(inv[i].attempts) |-> FateOf(inv[i].attempts[k])])

\* C14: interleaved invocations do not interfere: the requests issued and the
\* envelope returned by each are those of the same invocation running alone
\* against the same upstream responses; a step of one invocation leaves the
\* others as they are; the credential never changes after startup.
C14_NoInterference ==
    /\ [](\A i \in Slots : inv[i].tool \in Tools => inv[i] = Alone(i))
    /\ [][ /\ process = "serving" => validApiKey' = validApiKey
           /\ \A i, j \in Slots :
                (i # j /\ inv'[i] # inv[i]) => inv'[j] = inv[j] ]_vars

C14_Witness ==
    \E i, j \in Slots :
        /\ i # j
        /\ inv[i].tool = "get_tournament_details" /\ inv[j].tool = "get_tournament_details"
        /\ inv[i].raw = inv[j].raw
        /\ inv[i].pc = "done" /\ Len(inv[i].attempts) = 1
        /\ inv[i].result.kind = "return"
        /\ inv[j].pc = "fetch" /\ Len(inv[j].attempts) = 2
        /\ inv[j].attempts[1].request = inv[i].attempts[1].request

----------------------------------------------------------------------------
\* the nouns of the handlers' failure messages
FailureNouns ==
    {"tournaments", "tournament details", "tournament standings", "tournament pairings"}

\* one text block holding the serialized payload, with or without a title,
\* and no error flag
IsSuccessEnvelope(envelope, title, data) ==
    /\ DOMAIN envelope = {"content"}
    /\ Len(envelope.content) = 1
    /\ envelope.content[1].type = "text"
    /\ envelope.content[1].text
            \in {Stringify(data, 0, 0), title \o "\n\n" \o Stringify(data, 2, 0)}

\* one text block holding a message that embeds the failure, and the error flag
IsFailureEnvelope(envelope, error) ==
    /\ DOMAIN envelope = {"content", "isError"}
    /\ envelope.isError = TRUE
    /\ Len(envelope.content) = 1
    /\ envelope.content[1].type = "text"
    /\ \E noun \in FailureNouns :
            envelope.content[1].text
                = "Error fetching " \o noun \o ": " \o error.name \o ": " \o error.message

\* C15: a tool invocation returns an envelope of one shape in both outcomes:
\* on success one text block holding the serialized JSON result, optionally
\* after a title, and no error flag; on failure one text block holding a
\* message that embeds the failure, and the error flag set.
C15_EnvelopeShape ==
    \A i \in Slots :
        (inv[i].tool \in Tools /\ inv[i].pc = "done") =>
            LET envelope == inv[i].result.envelope
                outcome == inv[i].outcome
            IN  /\ inv[i].result.kind = "return"
                /\ outcome.kind = "throw" => IsFailureEnvelope(envelope, outcome.error)
                /\ outcome.kind = "return" =>
                    \/ IsSuccessEnvelope(envelope,
                                         fallbackText(inv[i].tool, inv[i].args, outcome.value),
                                         outcome.value)
                    \/ /\ outcome.value = Null
                       /\ IsFailureEnvelope(envelope, NullError)

C15_Witness ==
    \E i \in Slots :
        /\ inv[i].tool = "get_tournaments"
        /\ inv[i].pc = "done"
        /\ inv[i].outcome = [kind |-> "throw", error |-> HttpError([status |-> 401,
                                                    statusText |-> "Unauthorized"])]
        /\ inv[i].result.envelope
                = [isError |-> TRUE,
                   content |-> <<[type |-> "text",
                                  text |-> "Error fetching tournaments: Error: "
                                           \o "API request failed: 401 Unauthorized"]>>]

----------------------------------------------------------------------------
\* C16: in the header-authentication server every outbound request carries
\* the credential in the X-Access-Key header and never as a `key` query
\* parameter, and a failed request is propagated after that single attempt,
\* with no retry.
C16_HeaderServerOneAttempt ==
    program = "header" =>
        \A i \in Slots :
            LET a == inv[i].attempts
            IN  /\ Len(a) <= 1
                /\ \A k \in 1..Len(a) :
                    /\ KeyInHeaderOnly(a[k].request)
                    /\ a[k].state = "failed" =>
                        /\ inv[i].pc = "done"
                        /\ inv[i].outcome = [kind |-> "throw", error |-> a[k].error]

C16_Witness ==
    \E i \in Slots :
        /\ program = "header"
        /\ inv[i].tool = "get_tournaments"
        /\ inv[i].pc = "done"
        /\ Len(inv[i].attempts) = 1
        /\ inv[i].attempts[1].state = "failed"
        /\ inv[i].attempts[1].request.headers = {<<"X-Access-Key", validApiKey>>}
        /\ inv[i].outcome.kind = "throw"
        /\ inv[i].result.envelope.isError = TRUE

----------------------------------------------------------------------------
\* a call of limitlessRequest is running in the slot
Running(slot) == slot.pc \in {"fetch", "json"}

\* the running request of the slot fails in this step
FailsNow(i) ==
    /\ Running(inv[i])
    /\ inv'[i].attempts[Len(inv[i].attempts)].state = "failed"

\* C17: the authentication mode of one limitlessRequest call of the fallback
\* client is a two-state machine: a call made by a handler starts in
\* QueryAuth (useHeaderAuth false); the only transition is QueryAuth to
\* HeaderAuth, taken on any failure; the mode never goes back; the call ends
\* only on success, from either state, or on failure from HeaderAuth.
C17_AuthModeMachine ==
    [][ program # "header" =>
          \A i \in Slots :
            /\ (inv[i].pc = "idle" /\ inv'[i].pc # "idle") =>
                    ~inv'[i].useHeaderAuth /\ inv'[i].pc = "fetch"
            /\ inv'[i].useHeaderAuth # inv[i].useHeaderAuth =>
                    /\ ~inv[i].useHeaderAuth /\ inv'[i].useHeaderAuth
                    /\ FailsNow(i)
            /\ (FailsNow(i) /\ ~inv[i].useHeaderAuth) =>
                    inv'[i].useHeaderAuth /\ inv'[i].pc = "fetch"
            /\ (Running(inv[i]) /\ inv'[i].pc = "done") =>
                    \/ /\ Last(inv'[i].attempts).state = "succeeded"
                       /\ inv'[i].outcome.kind = "return"
                    \/ /\ inv[i].useHeaderAuth
                       /\ FailsNow(i)
                       /\ inv'[i].outcome.kind = "throw"
            /\ (Running(inv[i]) /\ inv'[i] # inv[i]) =>
                    Running(inv'[i]) \/ inv'[i].pc = "done" ]_vars

C17_Witness ==
    \E i \in Slots :
        /\ program = "legacy"
        /\ inv[i].tool = "get_tournament_pairings"
        /\ inv[i].useHeaderAuth
        /\ inv[i].pc = "json"
        /\ Len(inv[i].attempts) = 2
        /\ ~inv[i].attempts[1].useHeaderAuth
        /\ inv[i].attempts[1].body = "<html>"

----------------------------------------------------------------------------
\* C18: provided every outbound request eventually resolves, every tool
\* invocation eventually returns an envelope; an invocation is pending only
\* while an outbound request of it is unresolved.
C18_InvocationsReturn ==
    /\ \A i \in Slots :
            (inv[i].pc \notin {"idle", "done"})
                ~> (inv[i].pc = "done" /\ inv[i].result.kind = "return")
    /\ [](\A i \in Slots :
            inv[i].pc \notin {"idle", "done"} =>
                Cardinality(UnsettledAttempts(inv[i])) = 1)

C18_Witness ==
    \E i \in Slots :
        /\ inv[i].tool = "get_tournament_standings"
        /\ inv[i].pc = "done"
        /\ Len(inv[i].attempts) = 2
        /\ inv[i].attempts[1].state = "failed"
        /\ inv[i].attempts[2].state = "failed"
        /\ UnsettledAttempts(inv[i]) = {}
        /\ inv[i].result.kind = "return"
        /\ "content" \in DOMAIN inv[i].result.envelope

----------------------------------------------------------------------------
\* the query parameters of a request other than the credential, in order
NonCredentialParams(request) ==
    SelectSeq(request.url.searchParams, LAMBDA e : e[1] # "key")

\* C19: the fallback retry is the identical request: the header-mode attempt
\* targets the same effective path and carries the same non-credential query
\* parameters, with the same values, as the failed query-parameter-mode
\* attempt; only the place of the credential differs.
C19_RetryIsSameRequest ==
    \A i \in Slots :
        LET a == inv[i].attempts
        IN  Len(a) = 2 =>
                /\ a[2].request.url.origin = a[1].request.url.origin
                /\ EffectivePath(a[2].request) = EffectivePath(a[1].request)
                /\ NonCredentialParams(a[2].request) = NonCredentialParams(a[1].request)
                /\ KeyInQueryOnly(a[1].request)
                /\ KeyInHeaderOnly(a[2].request)

C19_Witness ==
    \E i \in Slots :
        /\ inv[i].tool = "direct"
        /\ inv[i].endpoint = <<"/", "tournaments">>
        /\ inv[i].params = <<<<"format", Str("VGC")>>, <<"limit", Num(0)>>>>
        /\ Len(inv[i].attempts) = 2
        /\ EffectivePath(inv[i].attempts[2].request) = <<"tournaments">>
        /\ inv[i].attempts[2].request.url.searchParams
                = <<<<"format", "VGC">>, <<"limit", "0">>>>
        /\ inv[i].attempts[1].request.url.searchParams
                = <<<<"format", "VGC">>, <<"limit", "0">>, <<"key", validApiKey>>>>

----------------------------------------------------------------------------
\* what the client does about the failed k-th request of a slot: in
\* query-parameter mode the header-mode retry follows, in header mode the
\* error is thrown to the caller
HandledAsFailure(slot, k) ==
    LET a == slot.attempts
    IN  /\ a[k].state = "failed"
        /\ IF a[k].useHeaderAuth
               THEN /\ k = Len(a)
                    /\ slot.pc = "done"
                    /\ slot.outcome = [kind |-> "throw", error |-> a[k].error]
               ELSE /\ Len(a) = k + 1
                    /\ a[k + 1].useHeaderAuth

\* C20: a response with a successful status whose body cannot be parsed as
\* JSON counts as a failed attempt: in query-parameter mode it triggers the
\* header-mode retry, in header mode it is propagated to the caller, exactly
\* as a network failure or a non-success status is.
C20_UnparsableBodyIsFailure ==
    \A i \in Slots :
        \A k \in 1..Len(inv[i].attempts) :
            LET attempt == inv[i].attempts[k]
            IN  /\ attempt.body \in InvalidBodies =>
                    /\ ok(attempt.response)
                    /\ attempt.error = JsonError
                    /\ HandledAsFailure(inv[i], k)
                /\ attempt.state = "failed" => HandledAsFailure(inv[i], k)

C20_Witness ==
    \E i \in Slots :
        /\ inv[i].tool = "get_tournaments"
        /\ Len(inv[i].attempts) = 2
        /\ \A k \in 1..2 :
            /\ inv[i].attempts[k].response = [status |-> 200, statusText |-> "OK"]
            /\ inv[i].attempts[k].body = "<html>"
            /\ inv[i].attempts[k].state = "failed"
        /\ inv[i].outcome = [kind |-> "throw", error |-> JsonError]

----------------------------------------------------------------------------
\* the falsy values a filter can be supplied with
Falsy == {Null, Str(""), Num(0)}

\* the arguments with every falsy filter left out
WithoutFalsy(raw) == [f \in DOMAIN raw |-> IF raw[f] \in Falsy THEN Undefined ELSE raw[f]]

\* C21: get_tournaments omits every filter whose value is falsy, not only
\* the undefined ones: a filter supplied as null, the empty string or the
\* number 0 is never sent to the upstream and never appears in the title
\* (the envelope is the one of the same call without those filters).
C21_FalsyFiltersOmitted ==
    \A i \in Slots :
        inv[i].tool = "get_tournaments" =>
            LET raw == inv[i].raw
                dropped == { f \in Filters : raw[f] \in Falsy }
            IN  /\ \A request \in RequestsOf(inv[i]) :
                        QueryNames(request) \cap dropped = {}
                /\ \A k \in 1..Len(inv[i].params) : inv[i].params[k][1] \notin dropped
                /\ (inv[i].pc = "done" /\ inv[i].outcome.kind = "return") =>
                        inv[i].result.envelope.content[1].text
                            \in { Stringify(inv[i].outcome.value, 0, 0),
                                  "# " \o titleOf(WithoutFalsy(raw)) \o "\n\n"
                                       \o Stringify(inv[i].outcome.value, 2, 0) }

C21_Witness ==
    \E i \in Slots :
        /\ program = "fallback"
        /\ inv[i].tool = "get_tournaments"
        /\ inv[i].raw = [game |-> Null, format |-> Str(""), organizerId |-> Str("42"),
                         limit |-> Num(0), page |-> Null]
        /\ inv[i].pc = "done"
        /\ inv[i].attempts[1].request.url.searchParams
                = <<<<"organizerId", "42">>, <<"key", validApiKey>>>>
        /\ inv[i].outcome = [kind |-> "return", value |-> Arr(<<>>)]
        /\ inv[i].result.envelope.content[1].text
                = "# Limitless Tournaments by organizer 42\n\n[]"

----------------------------------------------------------------------------
\* C22: when both attempts of limitlessRequest fail, the error thrown to the
\* caller, and embedded in the error envelope, is the error of the
\* header-mode attempt; the error of the query-parameter-mode attempt never
\* reaches the caller.
C22_HeaderErrorPropagates ==
    \A i \in Slots :
        LET a == inv[i].attempts
        IN  (Len(a) = 2 /\ a[1].state = "failed" /\ a[2].state = "failed") =>
                /\ ~a[1].useHeaderAuth /\ a[2].useHeaderAuth
                /\ inv[i].pc = "done"
                /\ inv[i].outcome = [kind |-> "throw", error |-> a[2].error]
                /\ inv[i].tool \in Tools =>
                    /\ IsFailureEnvelope(inv[i].result.envelope, a[2].error)
                    /\ a[1].error # a[2].error =>
                            ~IsFailureEnvelope(inv[i].result.envelope, a[1].error)

C22_Witness ==
    \E i \in Slots :
        /\ inv[i].tool = "get_tournament_details"
        /\ Len(inv[i].attempts) = 2
        /\ inv[i].attempts[1].error = NetworkError
        /\ inv[i].attempts[2].error = HttpError([status |-> 404, statusText |-> "Not Found"])
        /\ inv[i].outcome.kind = "throw"
        /\ inv[i].result.envelope.content[1].text
                = "Error fetching tournament details: Error: API request failed: 404 Not Found"

----------------------------------------------------------------------------
\* the environment variable is set to a non-empty value
EnvironmentSet == env # Undefined /\ env # Str("")

\* the first api-key=<value> argument has a plain, non-empty value
PlainArgument ==
    /\ findApiKeyArg(argv) # Undefined
    /\ Len(findApiKeyArg(argv).items) = 3
    /\ findApiKeyArg(argv).items[3] # "="

\* C23: the environment variable takes precedence: when LIMITLESS_API_KEY is
\* set to a non-empty value the credential is its value, whatever the
\* arguments; the argument gives the credential only when the environment
\* variable is unset or empty.
C23_EnvironmentFirst ==
    /\ EnvironmentSet =>
            /\ process # "exited"
            /\ process = "serving" => validApiKey = env.v
            /\ \A i \in Slots : \A request \in RequestsOf(inv[i]) :
                    CredentialsOf(request) = {env.v}
    /\ (~EnvironmentSet /\ PlainArgument) =>
            /\ process # "exited"
            /\ process = "serving" => validApiKey = ArgumentValue
            /\ \A i \in Slots : \A request \in RequestsOf(inv[i]) :
                    CredentialsOf(request) = {ArgumentValue}

C23_Witness ==
    \E i \in Slots :
        /\ env = Str("s3cr3t")
        /\ argv = <<<<"--verbose">>, ApiKeyArg(<<"k3y">>)>>
        /\ process = "serving"
        /\ Len(inv[i].attempts) = 2
        /\ QueryValues(inv[i].attempts[1].request, "key") = {"s3cr3t"}
        /\ HeaderValues(inv[i].attempts[2].request, "X-Access-Key") = {"s3cr3t"}

----------------------------------------------------------------------------
\* C24: in the resource servers a failure of limitlessRequest after the
\* fallback is not converted into an envelope: it leaves the resource
\* handler as a thrown error, for the protocol layer to deal with.
C24_ResourceFailuresPropagate ==
    \A i \in Slots :
        LET slot == inv[i]
            a == slot.attempts
        IN  (slot.tool \in Resources /\ slot.pc = "done") =>
                /\ program \in ResourcePrograms
                /\ slot.outcome.kind = "throw" =>
                    /\ Len(a) = 2
                    /\ a[1].state = "failed" /\ a[2].state = "failed"
                    /\ slot.result = [kind |-> "throw", error |-> a[2].error]
                /\ slot.result.kind = "return" =>
                    /\ slot.outcome.kind = "return"
                    /\ Last(a).state = "succeeded"

C24_Witness ==
    \E i \in Slots :
        /\ program = "resources"
        /\ inv[i].tool = "tournaments"
        /\ inv[i].pc = "done"
        /\ Len(inv[i].attempts) = 2
        /\ inv[i].attempts[2].response = [status |-> 401, statusText |-> "Unauthorized"]
        /\ inv[i].result
                = [kind |-> "throw",
                   error |-> [name |-> "Error",
                              message |-> "API request failed: 401 Unauthorized"]]

====
